---- MODULE Spec2Model ----
(***************************************************************************)
(* Horsey trading journal: the statistics engine (HorseyStats, stats.js),   *)
(* the renderers of its results (HorseyStats.formatStats and               *)
(* formatSetupAnalysis, HorseyDashboard.generatePerformance and            *)
(* generateSetupAnalysis), and the record store (HorseyDB, stats.js) under *)
(* its trade operations, the trade and paper commands of cli.js, and the   *)
(* narratives, the watchlist and the journal.  Spec is the engine on a     *)
(* result set, SpecStore the trades of the store under the commands with   *)
(* the engine reading them, SpecNotebook the notebooks under their         *)
(* operations, SpecJournalRace the journal under two writes whose          *)
(* statements interleave.                                                  *)
(*                                                                         *)
(* JavaScript numbers are modelled as exact rationals [n |-> numerator,    *)
(* d |-> denominator] in lowest terms, d > 0; the value Infinity is        *)
(* [n |-> 1, d |-> 0].  The profit-and-loss values the model draws are     *)
(* multiples of 1/8 dollar: they are exactly representable as IEEE         *)
(* doubles, their sums are exact, and a quotient of such a sum by a small  *)
(* count lies exactly on a rounding boundary only when the division is     *)
(* exact, so on these inputs the double arithmetic of the code and the     *)
(* rational arithmetic of the model round to the same results.             *)
(***************************************************************************)
EXTENDS Integers, Sequences, FiniteSets, TLC

VARIABLES trades, ret, out, rows, table, hasPaperColumn, narratives, watchlist,
          watchlistSeq, journal, writers

vars == <<trades, ret, out, rows, table, hasPaperColumn, narratives, watchlist,
          watchlistSeq, journal, writers>>

(* the notebooks: the narratives, the watchlist with the last id its      *)
(* AUTOINCREMENT key has given, the journal, and the journal writes that   *)
(* have been called and have not returned                                  *)
notebooks == <<narratives, watchlist, watchlistSeq, journal, writers>>

(* the record store: the four tables, and whether the trades table of the  *)
(* database file has the column is_paper                                   *)
store == <<table, hasPaperColumn, notebooks>>

(* ---------------------------------------------------------------------- *)
(* Bounds: the query returns at most MaxTrades rows; at most               *)
(* MaxStoredTrades trades are opened                                       *)
(* ---------------------------------------------------------------------- *)
MaxTrades == 3

MaxStoredTrades == 2

(* ---------------------------------------------------------------------- *)
(* JavaScript values                                                       *)
(* ---------------------------------------------------------------------- *)
null == [null |-> TRUE]

undefined == [undefined |-> TRUE]

RECURSIVE GCD(_, _)
GCD(a, b) == IF b = 0 THEN a ELSE GCD(b, a % b)

Abs(k) == IF k < 0 THEN -k ELSE k

Infinity == [n |-> 1, d |-> 0]

(* the value of 0 / 0 and of parseFloat for a text that is no number *)
NaN == [n |-> 0, d |-> 0]

Norm(n, d) ==
  IF d = 0 THEN (IF n = 0 THEN NaN ELSE Infinity)
  ELSE LET s == IF d < 0 THEN -1 ELSE 1
           g == GCD(Abs(n), Abs(d))
       IN  [n |-> (s * n) \div g, d |-> (s * d) \div g]

Num(k) == [n |-> k, d |-> 1]

Zero == Num(0)

RAdd(a, b) == Norm(a.n * b.d + b.n * a.d, a.d * b.d)

RTimes(a, b) == Norm(a.n * b.n, a.d * b.d)

RDivide(a, b) == Norm(a.n * b.d, a.d * b.n)

RLess(a, b) == a.n * b.d < b.n * a.d

RLeq(a, b) == a.n * b.d <= b.n * a.d

(* Math.abs *)
MathAbs(a) == [n |-> Abs(a.n), d |-> a.d]

(* Math.max *)
MathMax(a, b) == IF RLess(a, b) THEN b ELSE a

(* Math.round: the nearest integer, a tie going towards +Infinity;        *)
(* Math.round(Infinity) is Infinity.                                       *)
MathRound(a) ==
  IF a.d = 0 THEN a ELSE Num((2 * a.n + a.d) \div (2 * a.d))

(* Math.round(x * 100) / 100 *)
Round2(x) == RDivide(MathRound(RTimes(x, Num(100))), Num(100))

(* Math.round(x * 10000) / 100 *)
RoundPct(x) == RDivide(MathRound(RTimes(x, Num(10000))), Num(100))

(* ---------------------------------------------------------------------- *)
(* Rows returned by the statistics query                                   *)
(*   SELECT * FROM trades WHERE status = 'closed' AND (is_paper = 0 OR     *)
(*   is_paper IS NULL) ... ORDER BY entry_time DESC                        *)
(* The period and ticker filters are part of that query: `trades` is its   *)
(* result, closed non-paper rows with a numeric pnl, most recent first.    *)
(* ---------------------------------------------------------------------- *)
NULL == "NULL"

Tickers == {"SPY"}

PnlValues == {Norm(-3, 8), Norm(-1, 8), Zero, Norm(1, 8), Norm(3, 8)}

SetupTypes == {NULL, "breakout"}

RowCore == [ticker : Tickers, pnl : PnlValues, setup_type : SetupTypes]

(* entry_time, in days since a Sunday: one trade is entered per day, the   *)
(* first on a Friday, so the rows span Friday, the weekend and Monday      *)
EntryTimeOf(id) == 4 + id

(* ORDER BY entry_time DESC; ids are handed out in insertion order *)
ResultSets(n) ==
  { [i \in 1..n |-> [id |-> n - i + 1, ticker |-> s[i].ticker, pnl |-> s[i].pnl,
                     setup_type |-> s[i].setup_type,
                     entry_time |-> EntryTimeOf(n - i + 1)]] :
      s \in [1..n -> RowCore] }

InputTrades == UNION { ResultSets(n) : n \in 0..MaxTrades }

(* ---------------------------------------------------------------------- *)
(* HorseyStats.getStats                                                    *)
(* ---------------------------------------------------------------------- *)
(* the summary returned when the query selects no trade *)
EmptyStats ==
  [totalTrades |-> Zero, winRate |-> Zero, avgWinner |-> Zero, avgLoser |-> Zero,
   profitFactor |-> Zero, totalPnL |-> Zero, bestTrade |-> null,
   worstTrade |-> null, setupAnalysis |-> <<>>, dayOfWeekAnalysis |-> <<>>]

(* the number a pnl is compared and added as: a null pnl (a NULL column)   *)
(* converts to 0                                                           *)
ToNumber(v) == IF v = null THEN Zero ELSE v

(* t.pnl > 0 *)
IsWin(t) == RLess(Zero, ToNumber(t.pnl))

(* t.pnl < 0 *)
IsLoss(t) == RLess(ToNumber(t.pnl), Zero)

(* t.pnl === 0: no conversion, null is not 0 *)
IsScratch(t) == t.pnl = Zero

winners(ts) == SelectSeq(ts, IsWin)

losers(ts) == SelectSeq(ts, IsLoss)

(* a bug: t.pnl <= 0 *)
scratches_NonPositive(ts) == SelectSeq(ts, LAMBDA t : ~IsWin(t))

scratches(ts) == SelectSeq(ts, IsScratch)

(* reduce((sum, t) => sum + t.pnl, 0) *)
RECURSIVE SumPnl(_)
SumPnl(ts) ==
  IF ts = <<>> THEN Zero
  ELSE RAdd(SumPnl(SubSeq(ts, 1, Len(ts) - 1)), ToNumber(ts[Len(ts)].pnl))

totalPnL(ts) == SumPnl(ts)

(* a bug: scratches left out of the denominator *)
winRate_OverDecided(ts) ==
  RTimes(RDivide(Num(Len(winners(ts))), Num(Len(winners(ts)) + Len(losers(ts)))),
         Num(100))

winRate(ts) == RTimes(RDivide(Num(Len(winners(ts))), Num(Len(ts))), Num(100))

totalWinnings(ts) == SumPnl(winners(ts))

totalLosses(ts) == MathAbs(SumPnl(losers(ts)))

avgWinner(ts) ==
  IF Len(winners(ts)) > 0
  THEN RDivide(totalWinnings(ts), Num(Len(winners(ts)))) ELSE Zero

(* a bug: the sum of the losers' pnl without Math.abs *)
avgLoser_Signed(ts) ==
  IF Len(losers(ts)) > 0
  THEN RDivide(SumPnl(losers(ts)), Num(Len(losers(ts)))) ELSE Zero

avgLoser(ts) ==
  IF Len(losers(ts)) > 0
  THEN RDivide(totalLosses(ts), Num(Len(losers(ts)))) ELSE Zero

(* a bug: no Infinity for winnings without losses *)
profitFactor_NoInfinity(ts) ==
  IF RLess(Zero, totalLosses(ts)) THEN RDivide(totalWinnings(ts), totalLosses(ts))
  ELSE Zero

profitFactor(ts) ==
  IF RLess(Zero, totalLosses(ts)) THEN RDivide(totalWinnings(ts), totalLosses(ts))
  ELSE IF RLess(Zero, totalWinnings(ts)) THEN Infinity ELSE Zero

(* a bug: >= instead of >, the last of several equal trades wins *)
BetterOf_LastOnTie(best, current) ==
  IF best = null \/ RLeq(ToNumber(best.pnl), ToNumber(current.pnl))
  THEN current ELSE best

(* (best, current) => !best || current.pnl > best.pnl ? current : best *)
BetterOf(best, current) ==
  IF best = null \/ RLess(ToNumber(best.pnl), ToNumber(current.pnl))
  THEN current ELSE best

(* (worst, current) => !worst || current.pnl < worst.pnl ? current : worst *)
WorseOf(worst, current) ==
  IF worst = null \/ RLess(ToNumber(current.pnl), ToNumber(worst.pnl))
  THEN current ELSE worst

RECURSIVE ReduceBest(_, _, _)
ReduceBest(ts, i, best) ==
  IF i > Len(ts) THEN best ELSE ReduceBest(ts, i + 1, BetterOf(best, ts[i]))

RECURSIVE ReduceWorst(_, _, _)
ReduceWorst(ts, i, worst) ==
  IF i > Len(ts) THEN worst ELSE ReduceWorst(ts, i + 1, WorseOf(worst, ts[i]))

bestTrade(ts) == ReduceBest(ts, 1, null)

worstTrade(ts) == ReduceWorst(ts, 1, null)

(* bestTrade ? { id, ticker, pnl, setup } : null *)
TradeRef(t) ==
  IF t # null
  THEN [id |-> t.id, ticker |-> t.ticker, pnl |-> t.pnl, setup |-> t.setup_type]
  ELSE null

(* ---------------------------------------------------------------------- *)
(* HorseyStats.getSetupAnalysis                                            *)
(* A JavaScript object is a sequence of entries in insertion order, the    *)
(* order in which Object.keys and Object.entries enumerate its keys.       *)
(* ---------------------------------------------------------------------- *)
(* a bug: a missing setup_type is used as the key as it is *)
SetupOf_NullKey(trade) == IF trade.setup_type = NULL THEN "null" ELSE trade.setup_type

(* trade.setup_type || 'other' *)
SetupOf(trade) == IF trade.setup_type = NULL THEN "other" ELSE trade.setup_type

NewSetupStats(setup) ==
  [setup |-> setup, totalTrades |-> Zero, winners |-> Zero, losers |-> Zero,
   totalPnL |-> Zero, winRate |-> Zero, avgPnL |-> Zero]

KeyIndex(obj, key) ==
  IF \E i \in 1..Len(obj) : obj[i].setup = key
  THEN CHOOSE i \in 1..Len(obj) : obj[i].setup = key
  ELSE 0

CountSetupTrade(stats, trade) ==
  [stats EXCEPT !.totalTrades = RAdd(@, Num(1)),
                !.totalPnL = RAdd(@, ToNumber(trade.pnl)),
                !.winners = IF IsWin(trade) THEN RAdd(@, Num(1)) ELSE @,
                !.losers = IF ~IsWin(trade) /\ IsLoss(trade)
                           THEN RAdd(@, Num(1)) ELSE @]

AddToSetupStats(setupStats, trade) ==
  LET setup == SetupOf(trade)
      withKey == IF KeyIndex(setupStats, setup) = 0
                 THEN Append(setupStats, NewSetupStats(setup))
                 ELSE setupStats
      k == KeyIndex(withKey, setup)
  IN  [withKey EXCEPT ![k] = CountSetupTrade(@, trade)]

RECURSIVE GroupBySetup(_, _, _)
GroupBySetup(ts, i, setupStats) ==
  IF i > Len(ts) THEN setupStats
  ELSE GroupBySetup(ts, i + 1, AddToSetupStats(setupStats, ts[i]))

(* winRate and avgPnL are computed from the unrounded sums, then totalPnL  *)
(* is rounded                                                              *)
FinishSetupStats(stats) ==
  [stats EXCEPT !.winRate = RoundPct(RDivide(stats.winners, stats.totalTrades)),
                !.avgPnL = Round2(RDivide(stats.totalPnL, stats.totalTrades)),
                !.totalPnL = Round2(stats.totalPnL)]

getSetupAnalysisOf(ts) ==
  LET setupStats == GroupBySetup(ts, 1, <<>>)
  IN  [k \in 1..Len(setupStats) |-> FinishSetupStats(setupStats[k])]

(* ---------------------------------------------------------------------- *)
(* HorseyStats.getDayOfWeekAnalysis                                        *)
(* ---------------------------------------------------------------------- *)
WeekdayNames ==
  <<"Sunday", "Monday", "Tuesday", "Wednesday", "Thursday", "Friday", "Saturday">>

(* a bug: a weekend day is taken for the Friday before it *)
DayNameOf_WeekendAsFriday(entry_time) ==
  IF entry_time % 7 \in {0, 6} THEN "Friday" ELSE WeekdayNames[(entry_time % 7) + 1]

(* new Date(entry_time).toLocaleDateString('en-US', { weekday: 'long' }) *)
DayNameOf(entry_time) == WeekdayNames[(entry_time % 7) + 1]

InitialDayStats ==
  [k \in 1..5 |-> [day |-> WeekdayNames[k + 1], totalTrades |-> Zero,
                   totalPnL |-> Zero, winners |-> Zero]]

CountDayTrade(stats, trade) ==
  [stats EXCEPT !.totalTrades = RAdd(@, Num(1)),
                !.totalPnL = RAdd(@, ToNumber(trade.pnl)),
                !.winners = IF IsWin(trade) THEN RAdd(@, Num(1)) ELSE @]

(* if (dayStats[dayName]) { ... }: a day that is no key is skipped *)
AddToDayStats(dayStats, trade) ==
  [k \in 1..Len(dayStats) |->
     IF dayStats[k].day = DayNameOf(trade.entry_time)
     THEN CountDayTrade(dayStats[k], trade) ELSE dayStats[k]]

RECURSIVE GroupByDay(_, _, _)
GroupByDay(ts, i, dayStats) ==
  IF i > Len(ts) THEN dayStats
  ELSE GroupByDay(ts, i + 1, AddToDayStats(dayStats, ts[i]))

FinishDayStats(stats) ==
  [day |-> stats.day,
   totalTrades |-> stats.totalTrades,
   winners |-> stats.winners,
   winRate |-> IF RLess(Zero, stats.totalTrades)
               THEN RoundPct(RDivide(stats.winners, stats.totalTrades)) ELSE Zero,
   avgPnL |-> IF RLess(Zero, stats.totalTrades)
              THEN Round2(RDivide(stats.totalPnL, stats.totalTrades)) ELSE Zero,
   totalPnL |-> Round2(stats.totalPnL)]

getDayOfWeekAnalysis(ts) ==
  LET dayStats == GroupByDay(ts, 1, InitialDayStats)
  IN  [k \in 1..Len(dayStats) |-> FinishDayStats(dayStats[k])]

(* the value getStats returns for the rows its query selected *)
getStatsOf(ts) ==
  IF Len(ts) = 0 THEN EmptyStats
  ELSE [totalTrades |-> Num(Len(ts)),
        winners |-> Num(Len(winners(ts))),
        losers |-> Num(Len(losers(ts))),
        scratches |-> Num(Len(scratches(ts))),
        winRate |-> Round2(winRate(ts)),
        avgWinner |-> Round2(avgWinner(ts)),
        avgLoser |-> Round2(avgLoser(ts)),
        profitFactor |-> Round2(profitFactor(ts)),
        totalPnL |-> Round2(totalPnL(ts)),
        bestTrade |-> TradeRef(bestTrade(ts)),
        worstTrade |-> TradeRef(worstTrade(ts)),
        setupAnalysis |-> getSetupAnalysisOf(ts),
        dayOfWeekAnalysis |-> getDayOfWeekAnalysis(ts)]

(* ---------------------------------------------------------------------- *)
(* HorseyStats.getStreaks                                                  *)
(* ---------------------------------------------------------------------- *)
StreakTypeOf(trade) ==
  IF IsWin(trade) THEN "win" ELSE IF IsLoss(trade) THEN "loss" ELSE "scratch"

(* a bug: no break, every later trade of the class is counted *)
RECURSIVE CurrentStreakLoop_NoBreak(_, _, _, _)
CurrentStreakLoop_NoBreak(ts, i, streakType, currentStreak) ==
  IF i > Len(ts) THEN currentStreak
  ELSE IF i = 1
       THEN CurrentStreakLoop_NoBreak(ts, i + 1, StreakTypeOf(ts[i]),
                                      [type |-> StreakTypeOf(ts[i]), count |-> Num(1)])
       ELSE IF \/ IsWin(ts[i]) /\ streakType = "win"
               \/ IsLoss(ts[i]) /\ streakType = "loss"
               \/ ~IsWin(ts[i]) /\ ~IsLoss(ts[i]) /\ streakType = "scratch"
            THEN CurrentStreakLoop_NoBreak(ts, i + 1, streakType,
                                   [currentStreak EXCEPT !.count = RAdd(@, Num(1))])
            ELSE CurrentStreakLoop_NoBreak(ts, i + 1, streakType, currentStreak)

(* the for loop over the rows, most recent first, from index i on *)
RECURSIVE CurrentStreakLoop(_, _, _, _)
CurrentStreakLoop(ts, i, streakType, currentStreak) ==
  IF i > Len(ts) THEN currentStreak
  ELSE IF i = 1
       THEN CurrentStreakLoop(ts, i + 1, StreakTypeOf(ts[i]),
                              [type |-> StreakTypeOf(ts[i]), count |-> Num(1)])
       ELSE IF \/ IsWin(ts[i]) /\ streakType = "win"
               \/ IsLoss(ts[i]) /\ streakType = "loss"
               \/ ~IsWin(ts[i]) /\ ~IsLoss(ts[i]) /\ streakType = "scratch"
            THEN CurrentStreakLoop(ts, i + 1, streakType,
                                   [currentStreak EXCEPT !.count = RAdd(@, Num(1))])
            ELSE currentStreak

currentStreakOf(ts) ==
  CurrentStreakLoop(ts, 1, NULL, [type |-> "none", count |-> Zero])

(* trades.reverse() *)
Reverse(ts) == [i \in 1..Len(ts) |-> ts[Len(ts) - i + 1]]

(* a bug: a scratch leaves the two running counters as they are *)
StreakStep_ScratchKeeps(st, trade) ==
  IF IsWin(trade)
  THEN [st EXCEPT !.currentWinStreak = RAdd(@, Num(1)),
                  !.currentLossStreak = Zero,
                  !.bestWinStreak =
                     MathMax(@, RAdd(st.currentWinStreak, Num(1)))]
  ELSE IF IsLoss(trade)
  THEN [st EXCEPT !.currentLossStreak = RAdd(@, Num(1)),
                  !.currentWinStreak = Zero,
                  !.worstLossStreak =
                     MathMax(@, RAdd(st.currentLossStreak, Num(1)))]
  ELSE st

(* a bug: the extremes are updated with the running counters as they were *)
(* before the trade                                                        *)
StreakStep_MaxBeforeCount(st, trade) ==
  IF IsWin(trade)
  THEN [st EXCEPT !.currentWinStreak = RAdd(@, Num(1)),
                  !.currentLossStreak = Zero,
                  !.bestWinStreak = MathMax(@, st.currentWinStreak)]
  ELSE IF IsLoss(trade)
  THEN [st EXCEPT !.currentLossStreak = RAdd(@, Num(1)),
                  !.currentWinStreak = Zero,
                  !.worstLossStreak = MathMax(@, st.currentLossStreak)]
  ELSE [st EXCEPT !.currentWinStreak = Zero, !.currentLossStreak = Zero]

(* the body of trades.reverse().forEach(trade => ...) *)
StreakStep(st, trade) ==
  IF IsWin(trade)
  THEN [st EXCEPT !.currentWinStreak = RAdd(@, Num(1)),
                  !.currentLossStreak = Zero,
                  !.bestWinStreak =
                     MathMax(@, RAdd(st.currentWinStreak, Num(1)))]
  ELSE IF IsLoss(trade)
  THEN [st EXCEPT !.currentLossStreak = RAdd(@, Num(1)),
                  !.currentWinStreak = Zero,
                  !.worstLossStreak =
                     MathMax(@, RAdd(st.currentLossStreak, Num(1)))]
  ELSE [st EXCEPT !.currentWinStreak = Zero, !.currentLossStreak = Zero]

RECURSIVE StreakScan(_, _, _)
StreakScan(ts, i, st) ==
  IF i > Len(ts) THEN st ELSE StreakScan(ts, i + 1, StreakStep(st, ts[i]))

getStreaksOf(ts) ==
  IF Len(ts) = 0
  THEN [currentStreak |-> [type |-> "none", count |-> Zero],
        bestWinStreak |-> Zero, worstLossStreak |-> Zero]
  ELSE LET st == StreakScan(Reverse(ts), 1,
                            [bestWinStreak |-> Zero, worstLossStreak |-> Zero,
                             currentWinStreak |-> Zero, currentLossStreak |-> Zero])
       IN  [currentStreak |-> currentStreakOf(ts),
            bestWinStreak |-> st.bestWinStreak,
            worstLossStreak |-> st.worstLossStreak]

(* ---------------------------------------------------------------------- *)
(* Number and template formatting                                          *)
(* ---------------------------------------------------------------------- *)
(* the characters the module's strings cannot hold, by code point *)
InfinitySymbol == "{U+221E}"

ChartGlyph == "{U+1F4CA}"

RuleGlyph == "{U+2550}"

RECURSIVE Repeat(_, _)
Repeat(str, k) == IF k = 0 THEN "" ELSE str \o Repeat(str, k - 1)

(* k as exactly `width` decimal digits *)
RECURSIVE Digits(_, _)
Digits(k, width) ==
  IF width = 0 THEN "" ELSE Digits(k \div 10, width - 1) \o ToString(k % 10)

(* the digits of a fraction of `width` places, trailing zeros dropped *)
RECURSIVE Fraction(_, _)
Fraction(k, width) ==
  IF width = 0 \/ k = 0 THEN ""
  ELSE IF k % 10 = 0 THEN Fraction(k \div 10, width - 1)
       ELSE Digits(k, width)

(* Number.prototype.toString for a value with at most three decimals *)
NumberToString(v) ==
  IF v.d = 0 THEN "Infinity"
  ELSE IF 1000 % v.d # 0 THEN ToString(v.n) \o "/" \o ToString(v.d)
  ELSE LET t == Abs(v.n) * (1000 \div v.d)
           frac == Fraction(t % 1000, 3)
       IN  (IF v.n < 0 THEN "-" ELSE "")
           \o ToString(t \div 1000)
           \o (IF frac = "" THEN "" ELSE "." \o frac)

Pow10(k) == IF k = 0 THEN 1 ELSE IF k = 1 THEN 10 ELSE 100

(* Number.prototype.toFixed(digits): the nearest decimal of that many     *)
(* places, the larger one on a tie                                        *)
toFixed(v, digits) ==
  IF v.d = 0 THEN "Infinity"
  ELSE LET k == (2 * Abs(v.n) * Pow10(digits) + v.d) \div (2 * v.d)
       IN  (IF v.n < 0 THEN "-" ELSE "")
           \o ToString(k \div Pow10(digits))
           \o (IF digits = 0 THEN "" ELSE "." \o Digits(k % Pow10(digits), digits))

(* obj.key: undefined when the object has no such property *)
Prop(obj, key) == IF key \in DOMAIN obj THEN obj[key] ELSE undefined

(* `${value}` in a template literal *)
Template(v) ==
  IF v = undefined THEN "undefined"
  ELSE IF v = null THEN "null"
  ELSE NumberToString(v)

TemplateText(str) == IF str = NULL THEN "null" ELSE str

(* ---------------------------------------------------------------------- *)
(* HorseyStats.formatStats: the lines it joins                             *)
(* ---------------------------------------------------------------------- *)
ProfitFactorLine(stats) == "Profit Factor: " \o Template(Prop(stats, "profitFactor"))

formatStatsOf(stats) ==
  << ChartGlyph \o " PERFORMANCE STATS",
     Repeat(RuleGlyph, 40),
     "Total Trades: " \o Template(Prop(stats, "totalTrades")),
     "Winners: " \o Template(Prop(stats, "winners"))
        \o " | Losers: " \o Template(Prop(stats, "losers"))
        \o " | Scratches: " \o Template(Prop(stats, "scratches")),
     "Win Rate: " \o Template(Prop(stats, "winRate")) \o "%",
     "Avg Winner: $" \o Template(Prop(stats, "avgWinner"))
        \o " | Avg Loser: $" \o Template(Prop(stats, "avgLoser")),
     ProfitFactorLine(stats),
     "Total P&L: $" \o Template(Prop(stats, "totalPnL")) >>
  \o (IF stats.bestTrade # null
      THEN << "Best Trade: " \o stats.bestTrade.ticker
              \o " +$" \o Template(stats.bestTrade.pnl)
              \o " (" \o TemplateText(stats.bestTrade.setup) \o ")" >>
      ELSE << >>)
  \o (IF stats.worstTrade # null
      THEN << "Worst Trade: " \o stats.worstTrade.ticker
              \o " -$" \o Template(MathAbs(stats.worstTrade.pnl))
              \o " (" \o TemplateText(stats.worstTrade.setup) \o ")" >>
      ELSE << >>)

(* ---------------------------------------------------------------------- *)
(* HorseyDashboard.generatePerformance: the perf-cards of the card         *)
(* ---------------------------------------------------------------------- *)
SignClass(cond) == IF cond THEN "positive" ELSE "negative"

ProfitFactorCell(stats) ==
  IF stats.profitFactor = Infinity THEN InfinitySymbol
  ELSE toFixed(stats.profitFactor, 2)

generatePerformanceOf(stats) ==
  << [class |-> "", value |-> Template(Prop(stats, "totalTrades")),
      label |-> "Total Trades"],
     [class |-> SignClass(RLeq(Num(50), stats.winRate)),
      value |-> toFixed(stats.winRate, 1) \o "%", label |-> "Win Rate"],
     [class |-> SignClass(RLeq(Num(1), stats.profitFactor)),
      value |-> ProfitFactorCell(stats), label |-> "Profit Factor"],
     [class |-> SignClass(RLeq(Zero, stats.totalPnL)),
      value |-> "$" \o toFixed(stats.totalPnL, 2), label |-> "Total P&L"],
     [class |-> "positive",
      value |-> "$" \o toFixed(stats.avgWinner, 2), label |-> "Avg Winner"],
     [class |-> "negative",
      value |-> "$" \o toFixed(stats.avgLoser, 2), label |-> "Avg Loser"] >>

(* ---------------------------------------------------------------------- *)
(* The two renderers of the per-setup mapping                              *)
(* ---------------------------------------------------------------------- *)
TargetGlyph == "{U+1F3AF}"

(* String.prototype.toUpperCase, on the setup tags of the schema *)
toUpperCase(str) ==
  CASE str = "other" -> "OTHER"
    [] str = "breakout" -> "BREAKOUT"
    [] str = "fade" -> "FADE"
    [] str = "momentum" -> "MOMENTUM"
    [] str = "reversal" -> "REVERSAL"
    [] str = "csp" -> "CSP"
    [] str = "squeeze" -> "SQUEEZE"
    [] str = "long" -> "LONG"
    [] str = "spy" -> "SPY"

(* a bug: an entry is placed in front of the entries it ties with *)
InsertByTotalPnL_BeforeTies(sorted, entry) ==
  LET before == SelectSeq(sorted, LAMBDA x : RLess(entry.totalPnL, x.totalPnL))
      after == SelectSeq(sorted, LAMBDA x : ~RLess(entry.totalPnL, x.totalPnL))
  IN  before \o <<entry>> \o after

(* .sort(([,a], [,b]) => b.totalPnL - a.totalPnL), a stable sort: an entry *)
(* goes behind every entry the comparator does not order after it          *)
InsertByTotalPnL(sorted, entry) ==
  LET before == SelectSeq(sorted, LAMBDA x : ~RLess(x.totalPnL, entry.totalPnL))
      after == SelectSeq(sorted, LAMBDA x : RLess(x.totalPnL, entry.totalPnL))
  IN  before \o <<entry>> \o after

RECURSIVE SortByTotalPnL(_, _, _)
SortByTotalPnL(entries, i, sorted) ==
  IF i > Len(entries) THEN sorted
  ELSE SortByTotalPnL(entries, i + 1, InsertByTotalPnL(sorted, entries[i]))

(* Object.entries(setupStats).sort(...) *)
sortedSetups(setupStats) == SortByTotalPnL(setupStats, 1, <<>>)

SetupLine(stats) ==
  toUpperCase(stats.setup) \o ": " \o Template(stats.totalTrades) \o " trades, "
    \o Template(stats.winRate) \o "% win rate, $" \o Template(stats.totalPnL)
    \o " total, $" \o Template(stats.avgPnL) \o " avg"

(* HorseyStats.formatSetupAnalysis: the lines it joins *)
formatSetupAnalysisOf(setupStats) ==
  << TargetGlyph \o " SETUP ANALYSIS", Repeat(RuleGlyph, 50) >>
  \o [k \in 1..Len(setupStats) |-> SetupLine(sortedSetups(setupStats)[k])]

SetupRow(stats) ==
  [setup |-> toUpperCase(stats.setup),
   totalTrades |-> Template(stats.totalTrades),
   winRateClass |-> SignClass(RLeq(Num(50), stats.winRate)),
   winRate |-> toFixed(stats.winRate, 1) \o "%",
   pnlClass |-> SignClass(RLeq(Zero, stats.totalPnL)),
   totalPnL |-> "$" \o toFixed(stats.totalPnL, 2),
   avgPnL |-> "$" \o toFixed(stats.avgPnL, 2)]

(* HorseyDashboard.generateSetupAnalysis: the rows of the table body *)
generateSetupAnalysisOf(setupStats) ==
  [k \in 1..Len(setupStats) |-> SetupRow(sortedSetups(setupStats)[k])]

(* ---------------------------------------------------------------------- *)
(* The state machine: `trades` is the result set of the statistics query,  *)
(* `ret` the value the last engine call returned, `out` what the last      *)
(* renderer produced from it, `rows` the array the last engine call got    *)
(* from the database, as the call left it (empty before the first call).   *)
(* ---------------------------------------------------------------------- *)
None == [op |-> "none"]

Init ==
  /\ trades \in InputTrades
  /\ ret = None
  /\ out = None
  /\ rows = <<>>
  /\ table = <<>>
  /\ hasPaperColumn = FALSE
  /\ narratives = <<>>
  /\ watchlist = <<>>
  /\ watchlistSeq = 0
  /\ journal = <<>>
  /\ writers = <<>>

(* a bug: the array handed out before is handed out again *)
all_SameArray(resultSet, held) == IF held = <<>> THEN resultSet ELSE held

(* HorseyDB.all: every call resolves with a new array of the rows selected *)
all(resultSet, held) == resultSet

getStats ==
  LET fetched == all(trades, rows)
  IN  /\ ret' = [op |-> "getStats", value |-> getStatsOf(fetched)]
      /\ rows' = fetched
      /\ out' = None
      /\ UNCHANGED <<trades, store>>

(* trades.reverse() reverses the array it fetched in place, after the      *)
(* early return for no rows                                                *)
getStreaks ==
  LET fetched == all(trades, rows)
  IN  /\ ret' = [op |-> "getStreaks", value |-> getStreaksOf(fetched)]
      /\ rows' = IF Len(fetched) = 0 THEN fetched ELSE Reverse(fetched)
      /\ out' = None
      /\ UNCHANGED <<trades, store>>

(* The rows of a query without ORDER BY, which SQLite returns in the order *)
(* of the table scan, that is by ascending id, given the rows with the     *)
(* most recent first.                                                      *)
ScanOrder(ts) == [i \in 1..Len(ts) |-> ts[Len(ts) - i + 1]]

(* getSetupAnalysis(): no argument, its own query *)
getSetupAnalysis ==
  LET fetched == all(ScanOrder(trades), rows)
  IN  /\ ret' = [op |-> "getSetupAnalysis", value |-> getSetupAnalysisOf(fetched)]
      /\ rows' = fetched
      /\ out' = None
      /\ UNCHANGED <<trades, store>>

(* cli.js: console.log(stats.formatStats(result)) *)
formatStats ==
  /\ ret.op = "getStats"
  /\ out' = [op |-> "formatStats", lines |-> formatStatsOf(ret.value)]
  /\ UNCHANGED <<trades, ret, rows, store>>

(* cli.js: console.log(stats.formatSetupAnalysis(setupStats)) *)
formatSetupAnalysis ==
  /\ ret.op = "getSetupAnalysis"
  /\ out' = [op |-> "formatSetupAnalysis", lines |-> formatSetupAnalysisOf(ret.value)]
  /\ UNCHANGED <<trades, ret, rows, store>>

(* dashboard: ${this.generateSetupAnalysis(setupAnalysis)} *)
generateSetupAnalysis ==
  /\ ret.op = "getSetupAnalysis"
  /\ out' = [op |-> "generateSetupAnalysis",
             rows |-> generateSetupAnalysisOf(ret.value)]
  /\ UNCHANGED <<trades, ret, rows, store>>

(* dashboard: ${this.generatePerformance(allTimeStats)} *)
generatePerformance ==
  /\ ret.op = "getStats"
  /\ out' = [op |-> "generatePerformance", cards |-> generatePerformanceOf(ret.value)]
  /\ UNCHANGED <<trades, ret, rows, store>>

Next ==
  \/ getStats
  \/ getStreaks
  \/ getSetupAnalysis
  \/ formatStats
  \/ generatePerformance
  \/ formatSetupAnalysis
  \/ generateSetupAnalysis

Spec == Init /\ [][Next]_vars

(* ---------------------------------------------------------------------- *)
(* HorseyDB: the trades table                                              *)
(* A row is a record of the columns the operations below read or write.    *)
(* A NULL column is null where JavaScript computes with it (exit_price,    *)
(* proceeds, pnl) and NULL where it is a text (notes, lessons); an option  *)
(* that is not given is NULL too.  One trade is entered per day, as in the *)
(* result sets above: the trade with the id k is entered on EntryTimeOf(k) *)
(* and the current day is that of the last trade entered.                  *)
(* ---------------------------------------------------------------------- *)
COMMISSION == Num(1)

(* the columns of CREATE TABLE IF NOT EXISTS trades *)
TradesColumns ==
  {"id", "ticker", "direction", "instrument", "entry_price", "entry_time",
   "exit_price", "exit_time", "size", "cost_basis", "proceeds", "pnl",
   "pnl_pct", "setup_type", "narrative_id", "watchlist_id", "planned_risk",
   "planned_target", "actual_rr", "notes", "lessons", "status", "created_at"}

(* the columns of the trades table of the database file: those of the     *)
(* statement above, or, of an earlier table, these and is_paper            *)
TableColumns ==
  TradesColumns \cup (IF hasPaperColumn THEN {"is_paper"} ELSE {})

(* the columns INSERT INTO trades names *)
OpenTradeColumns ==
  {"ticker", "direction", "instrument", "entry_price", "size", "cost_basis",
   "setup_type", "narrative_id", "watchlist_id", "planned_risk",
   "planned_target", "notes", "is_paper"}

(* the columns the queries of the engine and of getTrades name *)
QueryColumns == {"status", "is_paper", "entry_time", "ticker", "pnl"}

InsertRuns == OpenTradeColumns \subseteq TableColumns

QueriesRun == QueryColumns \subseteq TableColumns

Instruments == {"shares", "calls"}

(* the arguments <entry_price>, <size> and <exit_price> of the command     *)
(* line, as the texts they are                                             *)
EntryPrices == {"1"}

Sizes == {"1"}

ExitPrices == {"1", "3", "abc"}

(* the text is a decimal numeral *)
IsNumeral(text) == \E k \in 0..9 : ToString(k) = text

(* parseInt(text): NaN when the text does not begin with a numeral *)
parseInt(text) ==
  IF IsNumeral(text) THEN CHOOSE k \in 0..9 : ToString(k) = text ELSE NaN

(* parseFloat(text) *)
parseFloat(text) == IF IsNumeral(text) THEN Num(parseInt(text)) ELSE NaN

NoteTexts == {"stopped out"}

LessonTexts == {"size down"}

(* the options of trade close: none, or --notes and --lessons *)
CloseOptions ==
  {[notes |-> NULL, lessons |-> NULL]}
    \cup [notes : NoteTexts, lessons : LessonTexts]

(* a || b on texts *)
Or(a, b) == IF a = NULL THEN b ELSE a

(* sqlite3 binds a number as it is, NaN as NULL *)
Bind(v) == IF v = NaN THEN null ELSE v

(* ['shares'].includes(instrument) ? 1 : 100 *)
MultiplierOf(instrument) == IF instrument = "shares" THEN Num(1) ELSE Num(100)

RMinus(a, b) == RAdd(a, RTimes(Num(-1), b))

(* the row INSERT INTO trades adds; the columns not named get their        *)
(* defaults                                                                *)
InsertedTrade(id, instrument, entryPrice, size, options) ==
  [id |-> id, ticker |-> "SPY", instrument |-> instrument,
   entry_price |-> entryPrice, entry_time |-> EntryTimeOf(id),
   exit_price |-> null, size |-> size,
   cost_basis |-> RAdd(RTimes(RTimes(entryPrice, Num(size)), MultiplierOf(instrument)),
                       COMMISSION),
   proceeds |-> null, pnl |-> null,
   setup_type |-> Or(options.setup, "other"),
   notes |-> Or(options.notes, NULL), lessons |-> NULL,
   status |-> "open", is_paper |-> IF options.paper THEN 1 ELSE 0]

(* The INSERT names the column is_paper: on a table without it the        *)
(* statement fails and openTrade throws; else it returns result.lastID.    *)
openTrade(instrument, entryPrice, size, options) ==
  /\ Len(table) < MaxStoredTrades
  /\ table' = IF InsertRuns
              THEN Append(table, InsertedTrade(Len(table) + 1, instrument,
                                               entryPrice, size, options))
              ELSE table
  /\ ret' = IF InsertRuns
            THEN [op |-> "openTrade", value |-> Num(Len(table) + 1)]
            ELSE [op |-> "openTrade",
                  error |-> "SQLITE_ERROR: table trades has no column named is_paper"]
  /\ rows' = <<>>
  /\ UNCHANGED <<trades, hasPaperColumn, notebooks>>

(* the row after UPDATE trades SET exit_price = ?, ... WHERE id = ? *)
ClosedTrade(trade, exitPrice, options) ==
  LET proceeds == RTimes(RTimes(exitPrice, Num(trade.size)),
                         MultiplierOf(trade.instrument))
      pnl == RMinus(proceeds, trade.cost_basis)
  IN  [trade EXCEPT !.exit_price = Bind(exitPrice),
                    !.proceeds = Bind(proceeds),
                    !.pnl = Bind(pnl),
                    !.status = "closed",
                    !.notes = Or(options.notes, trade.notes),
                    !.lessons = Or(options.lessons, NULL)]

(* a bug: no test of the row selected, the UPDATE changes no row *)
closeTrade_NoThrow(id, exitPrice, options) ==
  /\ table' = IF id \in 1..Len(table)
              THEN [table EXCEPT ![id] = ClosedTrade(@, exitPrice, options)]
              ELSE table
  /\ ret' = [op |-> "closeTrade",
             value |-> [changes |-> IF id \in 1..Len(table) THEN 1 ELSE 0]]
  /\ rows' = <<>>
  /\ UNCHANGED <<trades, hasPaperColumn, notebooks>>

(* closeTrade throws when no row has the id; it does not look at the       *)
(* status of the row it finds.  It returns the result of the UPDATE.       *)
closeTrade(id, exitPrice, options) ==
  /\ table' = IF id \in 1..Len(table)
              THEN [table EXCEPT ![id] = ClosedTrade(@, exitPrice, options)]
              ELSE table
  /\ ret' = IF id \in 1..Len(table)
            THEN [op |-> "closeTrade", value |-> [changes |-> 1]]
            ELSE [op |-> "closeTrade",
                  error |-> "Trade " \o ToString(id) \o " not found"]
  /\ rows' = <<>>
  /\ UNCHANGED <<trades, hasPaperColumn, notebooks>>

(* a bug: the UPDATE without its WHERE clause *)
updateTradeNotes_AllRows(id, notes, lessons) ==
  /\ table' = [i \in 1..Len(table) |->
                [table[i] EXCEPT !.notes = notes, !.lessons = lessons]]
  /\ ret' = None
  /\ out' = None
  /\ rows' = <<>>
  /\ UNCHANGED <<trades, hasPaperColumn, notebooks>>

(* UPDATE trades SET notes = ?, lessons = ? WHERE id = ? *)
updateTradeNotes(id, notes, lessons) ==
  /\ table' = [i \in 1..Len(table) |->
                IF table[i].id = id
                THEN [table[i] EXCEPT !.notes = notes, !.lessons = lessons]
                ELSE table[i]]
  /\ ret' = None
  /\ out' = None
  /\ rows' = <<>>
  /\ UNCHANGED <<trades, hasPaperColumn, notebooks>>

(* ---------------------------------------------------------------------- *)
(* The commands of the trade and the paper group (cli.js): each parses its *)
(* arguments, calls the store and prints one line, the error line when the *)
(* call throws.  The commands are given the ticker spy and the direction   *)
(* long.                                                                   *)
(* ---------------------------------------------------------------------- *)
(* console.error of the catch clause *)
ErrorLine(result) == "{U+274C} Error: " \o result.error

Threw(result) == "error" \in DOMAIN result

(* const costBasis = parseFloat(entryPrice) * parseInt(size) *)
PrintedCostBasis(instrument, entryPrice, size) ==
  RTimes(parseFloat(entryPrice), Num(parseInt(size)))

(* `Opened trade #${id}: ... ($${costBasis.toFixed(2)} basis)` *)
OpenedLine(id, instrument, entryPrice, size, costBasis) ==
  "{U+2705} Opened trade #" \o NumberToString(id) \o ": "
    \o toUpperCase("long") \o " " \o toUpperCase("spy") \o " "
    \o instrument \o " @ $" \o entryPrice \o " (" \o size \o "x, $"
    \o toFixed(costBasis, 2) \o " basis)"

(* trade open <ticker> <direction> <instrument> <entry_price> <size> *)
tradeOpen(instrument, entryPrice, size) ==
  /\ openTrade(instrument, parseFloat(entryPrice), parseInt(size),
               [setup |-> "other", notes |-> NULL, paper |-> FALSE])
  /\ out' = IF Threw(ret') THEN ErrorLine(ret')
            ELSE OpenedLine(ret'.value, instrument, entryPrice, size,
                            PrintedCostBasis(instrument, entryPrice, size))

(* paper open <ticker> <direction> <instrument> <entry_price> <size> *)
paperOpen(instrument, entryPrice, size) ==
  /\ openTrade(instrument, parseFloat(entryPrice), parseInt(size),
               [setup |-> "other", notes |-> NULL, paper |-> TRUE])
  /\ out' = IF Threw(ret') THEN ErrorLine(ret')
            ELSE "{U+1F4DD} Paper trade #" \o NumberToString(ret'.value) \o ": "
                 \o toUpperCase("long") \o " " \o toUpperCase("spy") \o " "
                 \o size \o "x " \o instrument \o " @ $" \o entryPrice

(* trade close <id> <exit_price> [--notes] [--lessons] *)
tradeClose(id, exitPrice, options) ==
  /\ closeTrade(parseInt(id), parseFloat(exitPrice), options)
  /\ out' = IF Threw(ret') THEN ErrorLine(ret')
            ELSE "{U+2705} Closed trade #" \o id \o " @ $" \o exitPrice

(* paper close <id> <exit_price> [--notes] *)
paperClose(id, exitPrice, options) ==
  /\ closeTrade(parseInt(id), parseFloat(exitPrice),
                [notes |-> options.notes, lessons |-> NULL])
  /\ out' = IF Threw(ret') THEN ErrorLine(ret')
            ELSE "{U+1F4DD} Closed paper trade #" \o id \o " @ $" \o exitPrice

(* ---------------------------------------------------------------------- *)
(* The statistics engine on the store, as the dashboard calls it           *)
(* ---------------------------------------------------------------------- *)
(* date('now') *)
Today(tbl) == EntryTimeOf(Len(tbl))

(* a bug: the paper trades are selected too *)
StatsFilter_PaperToo(t) == t.status = "closed"

(* WHERE status = 'closed' AND (is_paper = 0 OR is_paper IS NULL) *)
StatsFilter(t) == t.status = "closed" /\ t.is_paper = 0

(* the query of getStats(period) and of getStreaks: ORDER BY entry_time    *)
(* DESC                                                                    *)
StatsQuery(tbl, period) ==
  Reverse(SelectSeq(tbl, LAMBDA t : /\ StatsFilter(t)
                                    /\ period = "today" => t.entry_time = Today(tbl)))

(* db.getTrades({ open: true }) *)
getOpenTrades(tbl) ==
  Reverse(SelectSeq(tbl, LAMBDA t : t.is_paper = 0 /\ t.status = "open"))

RECURSIVE SumCostBasis(_)
SumCostBasis(ts) ==
  IF ts = <<>> THEN Zero
  ELSE RAdd(SumCostBasis(SubSeq(ts, 1, Len(ts) - 1)), ts[Len(ts)].cost_basis)

(* { ...todayStats, openPositions, openPositionsValue, todaysClosedTrades } *)
getTodaysSummaryOf(tbl) ==
  LET todayStats == getStatsOf(StatsQuery(tbl, "today"))
      openTrades == getOpenTrades(tbl)
  IN  [openPositions |-> Num(Len(openTrades)),
       openPositionsValue |-> Round2(SumCostBasis(openTrades)),
       todaysClosedTrades |-> todayStats.totalTrades] @@ todayStats

(* what the four engine calls of generateHTML return *)
EngineResults(tbl) ==
  [todayStats |-> getTodaysSummaryOf(tbl),
   allTimeStats |-> getStatsOf(StatsQuery(tbl, "all")),
   setupAnalysis |-> getSetupAnalysisOf(SelectSeq(tbl, StatsFilter)),
   streaks |-> getStreaksOf(StatsQuery(tbl, "all"))]

(* a bug: the rows getStreaks reverses are the stored ones *)
generateHTML_ReversesTable ==
  /\ hasPaperColumn
  /\ ret' = [op |-> "generateHTML", value |-> EngineResults(table)]
  /\ rows' = StatsQuery(table, "all")
  /\ table' = Reverse(table)
  /\ out' = None
  /\ UNCHANGED <<trades, hasPaperColumn, notebooks>>

(* HorseyDashboard.generateHTML, its calls of the engine: getTodaysSummary, *)
(* getStats('all'), getSetupAnalysis() and getStreaks(), each a SELECT that *)
(* names is_paper and fails on a table without the column.  The array      *)
(* getStreaks fetched, the last, is left reversed.                         *)
generateHTML ==
  /\ ret' = IF QueriesRun
            THEN [op |-> "generateHTML", value |-> EngineResults(table)]
            ELSE [op |-> "generateHTML",
                  error |-> "SQLITE_ERROR: no such column: is_paper"]
  /\ rows' = IF QueriesRun /\ Len(StatsQuery(table, "all")) > 0
             THEN Reverse(StatsQuery(table, "all")) ELSE <<>>
  /\ out' = None
  /\ UNCHANGED <<trades, store>>

(* ---------------------------------------------------------------------- *)
(* The record store under its trade operations and the dashboard.  The     *)
(* database file is new, its tables those of initTablesSync, or it is an   *)
(* earlier one whose trades table has the column is_paper (CREATE TABLE IF *)
(* NOT EXISTS keeps a table that exists); the other tables are empty or    *)
(* hold a record each.                                                     *)
(* ---------------------------------------------------------------------- *)
SampleNarratives ==
  << [id |-> 1, ticker |-> "SPY", narrative |-> "gap fill", direction |-> "neutral",
      timeframe |-> "intraday", status |-> "active", resolved_at |-> NULL] >>

SampleWatchlist ==
  << [id |-> 1, date |-> EntryTimeOf(0), ticker |-> "SPY", setup |-> "breakout",
      bias |-> "neutral", priority |-> 3, status |-> "watching"] >>

SampleJournal ==
  << [id |-> 1, date |-> EntryTimeOf(0), premarket_plan |-> "wait for the open",
      postmarket_review |-> NULL, market_context |-> NULL, grade |-> NULL] >>

InitStore ==
  /\ trades = <<>>
  /\ ret = None
  /\ out = None
  /\ rows = <<>>
  /\ table = <<>>
  /\ hasPaperColumn \in BOOLEAN
  /\ \/ narratives = <<>> /\ watchlist = <<>> /\ watchlistSeq = 0 /\ journal = <<>>
     \/ /\ narratives = SampleNarratives
        /\ watchlist = SampleWatchlist
        /\ watchlistSeq = 1
        /\ journal = SampleJournal
  /\ writers = <<>>

NextStore ==
  \/ \E instrument \in Instruments, entryPrice \in EntryPrices, size \in Sizes :
       tradeOpen(instrument, entryPrice, size)
  \/ \E instrument \in Instruments, entryPrice \in EntryPrices, size \in Sizes :
       paperOpen(instrument, entryPrice, size)
  \/ \E id \in 1..(Len(table) + 1), exitPrice \in ExitPrices,
        options \in CloseOptions :
       tradeClose(ToString(id), exitPrice, options)
  \/ \E id \in 1..(Len(table) + 1), exitPrice \in ExitPrices,
        notes \in {NULL} \cup NoteTexts :
       paperClose(ToString(id), exitPrice, [notes |-> notes])
  \/ \E id \in 1..(Len(table) + 1), notes \in NoteTexts,
        lessons \in {NULL} \cup LessonTexts :
       updateTradeNotes(id, notes, lessons)
  \/ generateHTML

SpecStore == InitStore /\ [][NextStore]_vars

(* ---------------------------------------------------------------------- *)
(* The notebooks of the store under their operations, each call run to its *)
(* return before the next.  A date is the number of its day, as            *)
(* entry_time above: the order of the days is the order of the texts       *)
(* YYYY-MM-DD that the code compares.                                      *)
(* ---------------------------------------------------------------------- *)
MaxNarratives == 2

(* status TEXT CHECK(status IN (...)) of narratives *)
NarrativeStatuses == {"active", "triggered", "invalidated", "expired"}

TerminalStatuses == {"triggered", "invalidated", "expired"}

(* the texts given as --status: the four of the table, and another *)
StatusArguments == NarrativeStatuses \cup {"done"}

(* new Date().toISOString() *)
Instants == {"2026-11-06T14:30:00.000Z"}

(* the row INSERT INTO narratives adds *)
InsertedNarrative(id, ticker, narrative, options) ==
  [id |-> id, ticker |-> toUpperCase(ticker), narrative |-> narrative,
   direction |-> Or(options.direction, "neutral"),
   timeframe |-> Or(options.timeframe, "intraday"),
   status |-> "active", resolved_at |-> NULL]

addNarrative(ticker, narrative, options) ==
  /\ Len(narratives) < MaxNarratives
  /\ narratives' = Append(narratives,
                          InsertedNarrative(Len(narratives) + 1, ticker,
                                            narrative, options))
  /\ ret' = [op |-> "addNarrative", value |-> Num(Len(narratives) + 1)]
  /\ out' = None
  /\ rows' = <<>>
  /\ UNCHANGED <<trades, table, hasPaperColumn, watchlist, watchlistSeq,
                 journal, writers>>

(* a bug: resolved_at is set whatever the status *)
ResolvedAt_Always(status, now) == now

(* [...].includes(status) ? new Date().toISOString() : null *)
ResolvedAt(status, now) == IF status \in TerminalStatuses THEN now ELSE NULL

(* UPDATE narratives SET status = ?, ..., resolved_at = ? WHERE id = ?: the *)
(* row with the id is changed whatever its status; a status the CHECK of   *)
(* the column rejects fails the statement when there is such a row         *)
updateNarrativeStatus(id, status, now) ==
  LET found == \E i \in 1..Len(narratives) : narratives[i].id = id
      rejected == found /\ status \notin NarrativeStatuses
  IN  /\ narratives' =
           IF rejected THEN narratives
           ELSE [i \in 1..Len(narratives) |->
                   IF narratives[i].id = id
                   THEN [narratives[i] EXCEPT !.status = status,
                                              !.resolved_at = ResolvedAt(status, now)]
                   ELSE narratives[i]]
      /\ ret' = IF rejected
                THEN [op |-> "updateNarrativeStatus",
                      error |-> "SQLITE_CONSTRAINT: CHECK constraint failed"]
                ELSE [op |-> "updateNarrativeStatus",
                      value |-> [changes |-> IF found THEN 1 ELSE 0]]
      /\ out' = None
      /\ rows' = <<>>
      /\ UNCHANGED <<trades, table, hasPaperColumn, watchlist, watchlistSeq,
                     journal, writers>>

(* new Date().toISOString().split('T')[0] and date("now"): the days the    *)
(* calls are made on                                                       *)
Days == {EntryTimeOf(0), EntryTimeOf(1)}

(* the dates of the rows *)
DatesOf(tbl) == {tbl[i].date : i \in 1..Len(tbl)}

(* the clock does not run backwards: a call is made on no day before the   *)
(* date of a row written earlier                                           *)
IsNow(today) == \A date \in DatesOf(watchlist) \cup DatesOf(journal) : date <= today

MaxWatchlistItems == 2

(* status TEXT CHECK(status IN (...)) of watchlist *)
WatchlistStatuses == {"watching", "triggered", "skipped", "missed"}

(* the row INSERT INTO watchlist adds *)
InsertedWatchlistItem(id, today, ticker, setup, options) ==
  [id |-> id, date |-> today, ticker |-> toUpperCase(ticker), setup |-> setup,
   bias |-> Or(options.bias, "neutral"),
   priority |-> IF options.priority = 0 THEN 3 ELSE options.priority,
   status |-> "watching"]

addToWatchlist(today, ticker, setup, options) ==
  /\ watchlistSeq < MaxWatchlistItems
  /\ watchlist' = Append(watchlist,
                         InsertedWatchlistItem(watchlistSeq + 1, today, ticker,
                                               setup, options))
  /\ watchlistSeq' = watchlistSeq + 1
  /\ ret' = [op |-> "addToWatchlist", value |-> Num(watchlistSeq + 1)]
  /\ out' = None
  /\ rows' = <<>>
  /\ UNCHANGED <<trades, table, hasPaperColumn, narratives, journal, writers>>

(* UPDATE watchlist SET status = ? WHERE id = ? *)
updateWatchlistStatus(id, status) ==
  LET found == \E i \in 1..Len(watchlist) : watchlist[i].id = id
      rejected == found /\ status \notin WatchlistStatuses
  IN  /\ watchlist' =
           IF rejected THEN watchlist
           ELSE [i \in 1..Len(watchlist) |->
                   IF watchlist[i].id = id
                   THEN [watchlist[i] EXCEPT !.status = status]
                   ELSE watchlist[i]]
      /\ ret' = IF rejected
                THEN [op |-> "updateWatchlistStatus",
                      error |-> "SQLITE_CONSTRAINT: CHECK constraint failed"]
                ELSE [op |-> "updateWatchlistStatus",
                      value |-> [changes |-> IF found THEN 1 ELSE 0]]
      /\ out' = None
      /\ rows' = <<>>
      /\ UNCHANGED <<trades, table, hasPaperColumn, narratives, watchlistSeq,
                     journal, writers>>

(* a bug: the items of today are deleted too *)
IsOld_TodayToo(item, today) == item.date <= today

(* WHERE date < date("now") *)
IsOld(item, today) == item.date < today

(* DELETE FROM watchlist WHERE date < date("now") *)
clearWatchlist(today) ==
  LET kept == SelectSeq(watchlist, LAMBDA item : ~IsOld(item, today))
  IN  /\ watchlist' = kept
      /\ ret' = [op |-> "clearWatchlist",
                 value |-> [changes |-> Len(watchlist) - Len(kept)]]
      /\ out' = None
      /\ rows' = <<>>
      /\ UNCHANGED <<trades, table, hasPaperColumn, narratives, watchlistSeq,
                     journal, writers>>

(* the columns a journal write sets, with their values *)
PlanAssignments(plan) == [premarket_plan |-> plan]

ReviewAssignments(review, options) ==
  [postmarket_review |-> review, market_context |-> Or(options.context, NULL),
   grade |-> Or(options.grade, NULL)]

(* the options of journal review: none, or --context and --grade *)
ReviewOptions ==
  {[context |-> NULL, grade |-> NULL], [context |-> "trend day", grade |-> "B"]}

(* result.changes of UPDATE journal SET ... WHERE date = ? *)
ChangesOf(jr, today) == Cardinality({i \in 1..Len(jr) : jr[i].date = today})

(* the journal after UPDATE journal SET ... WHERE date = ? *)
UpdatedJournal(jr, today, assignments) ==
  [i \in 1..Len(jr) |->
     IF jr[i].date = today THEN assignments @@ jr[i] ELSE jr[i]]

(* the row INSERT INTO journal (date, ...) adds: the columns not named are *)
(* NULL                                                                    *)
InsertedEntry(id, today, assignments) ==
  assignments @@ [id |-> id, date |-> today, premarket_plan |-> NULL,
                  postmarket_review |-> NULL, market_context |-> NULL,
                  grade |-> NULL]

(* date DATE UNIQUE NOT NULL *)
ViolatesUnique(jr, today) == \E i \in 1..Len(jr) : jr[i].date = today

(* a bug: the INSERT is run whatever the UPDATE changed *)
JournalAfterWrite_AlwaysInserts(jr, today, assignments) ==
  Append(UpdatedJournal(jr, today, assignments),
         InsertedEntry(Len(jr) + 1, today, assignments))

(* the UPDATE, and the INSERT if (result.changes === 0) *)
JournalAfterWrite(jr, today, assignments) ==
  IF ChangesOf(jr, today) = 0
  THEN Append(jr, InsertedEntry(Len(jr) + 1, today, assignments))
  ELSE UpdatedJournal(jr, today, assignments)

(* the result returned: that of the INSERT, or that of the UPDATE *)
WriteResult(jr, today) ==
  IF ChangesOf(jr, today) = 0
  THEN [lastID |-> Len(jr) + 1, changes |-> 1]
  ELSE [changes |-> ChangesOf(jr, today)]

setPlan(today, plan) ==
  /\ writers = <<>>
  /\ journal' = JournalAfterWrite(journal, today, PlanAssignments(plan))
  /\ ret' = [op |-> "setPlan", value |-> WriteResult(journal, today)]
  /\ out' = None
  /\ rows' = <<>>
  /\ UNCHANGED <<trades, table, hasPaperColumn, narratives, watchlist,
                 watchlistSeq, writers>>

setReview(today, review, options) ==
  /\ writers = <<>>
  /\ journal' = JournalAfterWrite(journal, today,
                                  ReviewAssignments(review, options))
  /\ ret' = [op |-> "setReview", value |-> WriteResult(journal, today)]
  /\ out' = None
  /\ rows' = <<>>
  /\ UNCHANGED <<trades, table, hasPaperColumn, narratives, watchlist,
                 watchlistSeq, writers>>

(* the notebooks of a new store *)
InitNotebook ==
  /\ trades = <<>>
  /\ ret = None
  /\ out = None
  /\ rows = <<>>
  /\ table = <<>>
  /\ hasPaperColumn = FALSE
  /\ narratives = <<>>
  /\ watchlist = <<>>
  /\ watchlistSeq = 0
  /\ journal = <<>>
  /\ writers = <<>>

NextNotebook ==
  \/ \E options \in {[direction |-> NULL, timeframe |-> NULL]} :
       addNarrative("spy", "gap fill", options)
  \/ \E id \in 1..MaxNarratives, status \in StatusArguments, now \in Instants :
       updateNarrativeStatus(id, status, now)
  \/ \E today \in Days :
       IsNow(today) /\ addToWatchlist(today, "spy", "breakout",
                                      [bias |-> NULL, priority |-> 3])
  \/ \E id \in 1..MaxWatchlistItems, status \in {"triggered", "skipped"} :
       updateWatchlistStatus(id, status)
  \/ \E today \in Days : IsNow(today) /\ clearWatchlist(today)
  \/ \E today \in Days : IsNow(today) /\ setPlan(today, "wait for the open")
  \/ \E today \in Days, options \in ReviewOptions :
       IsNow(today) /\ setReview(today, "chased the open", options)

SpecNotebook == InitNotebook /\ [][NextNotebook]_vars

(* ---------------------------------------------------------------------- *)
(* The journal under writes that run together: a call of setPlan or        *)
(* setReview awaits its UPDATE and then its INSERT, and the statements of  *)
(* another call, of this process or of another command running on the same *)
(* database file, may run in between.  writers holds the calls made: what  *)
(* each writes, for which date, and the statement it is to run next or how *)
(* it ended.                                                               *)
(* ---------------------------------------------------------------------- *)
MaxWriters == 2

(* the call is made: today is computed, the UPDATE is to run *)
beginWrite(op, today, assignments) ==
  /\ Len(writers) < MaxWriters
  /\ writers' = Append(writers, [op |-> op, today |-> today,
                                 assignments |-> assignments, pc |-> "update"])
  /\ UNCHANGED <<trades, ret, out, rows, table, hasPaperColumn, narratives,
                 watchlist, watchlistSeq, journal>>

(* let result = await this.run('UPDATE journal SET ... WHERE date = ?') *)
runUpdate(w) ==
  /\ writers[w].pc = "update"
  /\ journal' = UpdatedJournal(journal, writers[w].today, writers[w].assignments)
  /\ writers' = [writers EXCEPT ![w].pc =
                   IF ChangesOf(journal, writers[w].today) = 0
                   THEN "insert" ELSE "returned"]
  /\ UNCHANGED <<trades, ret, out, rows, table, hasPaperColumn, narratives,
                 watchlist, watchlistSeq>>

(* result = await this.run('INSERT INTO journal (date, ...) VALUES ...'):   *)
(* the statement fails, and the call throws, when the date has a record    *)
runInsert(w) ==
  /\ writers[w].pc = "insert"
  /\ journal' = IF ViolatesUnique(journal, writers[w].today) THEN journal
                ELSE Append(journal, InsertedEntry(Len(journal) + 1,
                                                   writers[w].today,
                                                   writers[w].assignments))
  /\ writers' = [writers EXCEPT ![w].pc =
                   IF ViolatesUnique(journal, writers[w].today)
                   THEN "threw" ELSE "returned"]
  /\ UNCHANGED <<trades, ret, out, rows, table, hasPaperColumn, narratives,
                 watchlist, watchlistSeq>>

NextJournalRace ==
  \/ \E today \in Days :
       /\ IsNow(today)
       /\ beginWrite("setPlan", today, PlanAssignments("wait for the open"))
  \/ \E today \in Days, options \in ReviewOptions :
       /\ IsNow(today)
       /\ beginWrite("setReview", today,
                     ReviewAssignments("chased the open", options))
  \/ \E w \in 1..Len(writers) : runUpdate(w)
  \/ \E w \in 1..Len(writers) : runInsert(w)

SpecJournalRace == InitNotebook /\ [][NextJournalRace]_vars

(* ====================================================================== *)
(* Properties                                                              *)
(* ====================================================================== *)
(* The reference values below are computed over the integers, directly     *)
(* from the rows: a pnl is read as the fraction ScaledPnl / CommonDen.     *)
RECURSIVE CommonDen(_)
CommonDen(ts) == IF ts = <<>> THEN 1 ELSE ts[1].pnl.d * CommonDen(Tail(ts))

ScaledPnl(i) == trades[i].pnl.n * (CommonDen(trades) \div trades[i].pnl.d)

WinIdx == {i \in 1..Len(trades) : trades[i].pnl.n > 0}

LossIdx == {i \in 1..Len(trades) : trades[i].pnl.n < 0}

ScratchIdx == {i \in 1..Len(trades) : trades[i].pnl.n = 0}

RECURSIVE ScaledSum(_)
ScaledSum(S) ==
  IF S = {} THEN 0
  ELSE LET i == CHOOSE x \in S : TRUE IN ScaledPnl(i) + ScaledSum(S \ {i})

(* gross winnings and gross losses, as multiples of 1 / CommonDen(trades) *)
GrossWin == ScaledSum(WinIdx)

GrossLoss == -ScaledSum(LossIdx)

(* a / b (b > 0) in hundredths, rounded half up and half away from zero *)
HalfUp(a, b) == (200 * a + b) \div (2 * b)

HalfAway(a, b) == IF a >= 0 THEN HalfUp(a, b) ELSE -HalfUp(-a, b)

(* the number v is exactly a / b *)
IsRatio(v, a, b) == v.d # 0 /\ v.n * b = a * v.d

(* the number v is exactly h hundredths *)
IsHundredths(v, h) == IsRatio(v, h, 100)

StatsReturned == ret.op = "getStats"

(* C1 (as amended): profitFactor is gross winnings / gross losses rounded  *)
(* to two decimal places when there are losses, Infinity when there are    *)
(* winnings and no losses, and 0 when there are neither.                   *)
C1_ProfitFactorRounded ==
  StatsReturned =>
    /\ GrossLoss > 0 =>
         IsHundredths(ret.value.profitFactor, HalfUp(GrossWin, GrossLoss))
    /\ GrossLoss = 0 /\ GrossWin > 0 => ret.value.profitFactor = Infinity
    /\ GrossLoss = 0 /\ GrossWin = 0 => ret.value.profitFactor = Zero

(* C1 (original): profitFactor is exactly gross winnings / gross losses    *)
(* when there are losses, Infinity when there are winnings and no losses,  *)
(* and 0 when there are neither.                                           *)
C1_ProfitFactorExact ==
  StatsReturned =>
    /\ GrossLoss > 0 => IsRatio(ret.value.profitFactor, GrossWin, GrossLoss)
    /\ GrossLoss = 0 /\ GrossWin > 0 => ret.value.profitFactor = Infinity
    /\ GrossLoss = 0 /\ GrossWin = 0 => ret.value.profitFactor = Zero

(* getStats has returned for winners and losers whose ratio has more than  *)
(* two decimals                                                            *)
C1_Witness ==
  /\ StatsReturned
  /\ GrossLoss > 0
  /\ GrossWin > 0
  /\ (100 * GrossWin) % GrossLoss # 0

(* C2: whenever the summary's profitFactor is Infinity, the text renderer  *)
(* and the HTML renderer both show the infinity symbol in its place.       *)
C2_InfinityRendersAsSymbol ==
  StatsReturned /\ ret.value.profitFactor = Infinity =>
    /\ out.op = "formatStats" =>
         out.lines[7] = "Profit Factor: " \o InfinitySymbol
    /\ out.op = "generatePerformance" =>
         out.cards[3].value = InfinitySymbol

(* C3: with no matching trade the summary has every count and metric 0     *)
(* and bestTrade and worstTrade null.                                      *)
C3_EmptySummaryAllZero ==
  StatsReturned /\ Len(trades) = 0 =>
    /\ \A f \in {"totalTrades", "winners", "losers", "scratches", "winRate",
                 "avgWinner", "avgLoser", "profitFactor", "totalPnL"} :
         Prop(ret.value, f) = Zero
    /\ Prop(ret.value, "bestTrade") = null
    /\ Prop(ret.value, "worstTrade") = null

(* C4: for a non-empty trade set the counts are those of the trades with   *)
(* pnl > 0, pnl < 0 and pnl = 0, and they add up to totalTrades.           *)
C4_CountsPartition ==
  StatsReturned /\ Len(trades) > 0 =>
    /\ ret.value.winners = Num(Cardinality(WinIdx))
    /\ ret.value.losers = Num(Cardinality(LossIdx))
    /\ ret.value.scratches = Num(Cardinality(ScratchIdx))
    /\ ret.value.totalTrades = Num(Len(trades))
    /\ RAdd(RAdd(ret.value.winners, ret.value.losers), ret.value.scratches)
         = ret.value.totalTrades

(* getStats has returned for a winner, a loser and a scratch *)
C4_Witness ==
  StatsReturned /\ WinIdx # {} /\ LossIdx # {} /\ ScratchIdx # {}

(* C5 (as amended): winRate is winners / total * 100 rounded to two        *)
(* decimal places for a non-empty trade set and 0 for the empty set, and   *)
(* lies in [0, 100].                                                       *)
C5_WinRateRounded ==
  StatsReturned =>
    /\ Len(trades) > 0 =>
         IsHundredths(ret.value.winRate,
                      HalfUp(100 * Cardinality(WinIdx), Len(trades)))
    /\ Len(trades) = 0 => ret.value.winRate = Zero
    /\ ret.value.winRate.d > 0
    /\ 0 <= ret.value.winRate.n
    /\ ret.value.winRate.n <= 100 * ret.value.winRate.d

(* C5 (original): winRate is exactly winners / total * 100 for a non-empty *)
(* trade set and 0 for the empty set, and lies in [0, 100].                *)
C5_WinRateExact ==
  StatsReturned =>
    /\ Len(trades) > 0 =>
         IsRatio(ret.value.winRate, 100 * Cardinality(WinIdx), Len(trades))
    /\ Len(trades) = 0 => ret.value.winRate = Zero
    /\ ret.value.winRate.d > 0
    /\ 0 <= ret.value.winRate.n
    /\ ret.value.winRate.n <= 100 * ret.value.winRate.d

(* getStats has returned for a trade set whose win rate has more than two  *)
(* decimals                                                                *)
C5_Witness ==
  /\ StatsReturned
  /\ Len(trades) > 0
  /\ (10000 * Cardinality(WinIdx)) % Len(trades) # 0

(* C6: avgWinner is gross winnings / number of winners and avgLoser is     *)
(* |gross losses| / number of losers, each as a monetary output (two       *)
(* decimal places) and 0 when its class is empty; avgLoser is never        *)
(* negative.                                                               *)
C6_AverageWinnerLoser ==
  StatsReturned =>
    /\ IF WinIdx # {}
       THEN IsHundredths(ret.value.avgWinner,
                         HalfAway(GrossWin, CommonDen(trades) * Cardinality(WinIdx)))
       ELSE ret.value.avgWinner = Zero
    /\ IF LossIdx # {}
       THEN IsHundredths(ret.value.avgLoser,
                         HalfAway(GrossLoss, CommonDen(trades) * Cardinality(LossIdx)))
       ELSE ret.value.avgLoser = Zero
    /\ ret.value.avgLoser.d > 0
    /\ ret.value.avgLoser.n >= 0

(* getStats has returned for several winners and several losers *)
C6_Witness ==
  StatsReturned /\ Cardinality(WinIdx) >= 1 /\ Cardinality(LossIdx) >= 2

(* C7: totalPnL is the sum of pnl over all selected trades, gross winnings *)
(* minus gross losses, as a monetary output (two decimal places, a tie     *)
(* rounded away from zero).                                                *)
C7_TotalPnLIsSum ==
  StatsReturned =>
    /\ ScaledSum(1..Len(trades)) = GrossWin - GrossLoss
    /\ IsHundredths(ret.value.totalPnL,
                    HalfAway(ScaledSum(1..Len(trades)), CommonDen(trades)))

(* the first index, in input order, of a trade with the greatest pnl *)
FirstMaxIdx ==
  CHOOSE i \in 1..Len(trades) :
    /\ \A j \in 1..Len(trades) : ScaledPnl(j) <= ScaledPnl(i)
    /\ \A j \in 1..(i - 1) : ScaledPnl(j) < ScaledPnl(i)

(* the first index, in input order, of a trade with the least pnl *)
FirstMinIdx ==
  CHOOSE i \in 1..Len(trades) :
    /\ \A j \in 1..Len(trades) : ScaledPnl(j) >= ScaledPnl(i)
    /\ \A j \in 1..(i - 1) : ScaledPnl(j) > ScaledPnl(i)

RefTo(i) ==
  [id |-> trades[i].id, ticker |-> trades[i].ticker, pnl |-> trades[i].pnl,
   setup |-> trades[i].setup_type]

(* C8: bestTrade is the first trade in input order with the maximum pnl,   *)
(* worstTrade the first with the minimum pnl; both are null when there are *)
(* no trades.                                                              *)
C8_BestWorstFirstExtreme ==
  StatsReturned =>
    IF Len(trades) = 0
    THEN ret.value.bestTrade = null /\ ret.value.worstTrade = null
    ELSE /\ ret.value.bestTrade = RefTo(FirstMaxIdx)
         /\ ret.value.worstTrade = RefTo(FirstMinIdx)

(* getStats has returned for trades of which two tie for the maximum and   *)
(* two tie for the minimum                                                 *)
C8_Witness ==
  /\ StatsReturned
  /\ \E i, j \in 1..Len(trades) :
       i < j /\ \A k \in 1..Len(trades) : ScaledPnl(k) <= ScaledPnl(i)
             /\ ScaledPnl(j) = ScaledPnl(i)
  /\ \E i \in 1..Len(trades) : ScaledPnl(i) < ScaledPnl(FirstMaxIdx)

SetupIdx(setup) ==
  {i \in 1..Len(trades) :
     (IF trades[i].setup_type = NULL THEN "other" ELSE trades[i].setup_type) = setup}

DayIdx(day) ==
  {i \in 1..Len(trades) : WeekdayNames[(trades[i].entry_time % 7) + 1] = day}

(* C9: every monetary output (totalPnL, avgWinner, avgLoser, and each      *)
(* group's totalPnL and avgPnL) is the exact value rounded to two decimal  *)
(* places, a tie rounded away from zero, also below zero.                  *)
C9_MonetaryRoundHalfAwayFromZero ==
  StatsReturned /\ Len(trades) > 0 =>
    /\ IsHundredths(ret.value.totalPnL,
                    HalfAway(ScaledSum(1..Len(trades)), CommonDen(trades)))
    /\ WinIdx # {} =>
         IsHundredths(ret.value.avgWinner,
                      HalfAway(GrossWin, CommonDen(trades) * Cardinality(WinIdx)))
    /\ LossIdx # {} =>
         IsHundredths(ret.value.avgLoser,
                      HalfAway(GrossLoss, CommonDen(trades) * Cardinality(LossIdx)))
    /\ \A k \in 1..Len(ret.value.setupAnalysis) :
         LET g == ret.value.setupAnalysis[k]
             S == SetupIdx(g.setup)
         IN  /\ IsHundredths(g.totalPnL, HalfAway(ScaledSum(S), CommonDen(trades)))
             /\ IsHundredths(g.avgPnL,
                             HalfAway(ScaledSum(S), CommonDen(trades) * Cardinality(S)))
    /\ \A k \in 1..Len(ret.value.dayOfWeekAnalysis) :
         LET g == ret.value.dayOfWeekAnalysis[k]
             S == DayIdx(g.day)
         IN  /\ IsHundredths(g.totalPnL, HalfAway(ScaledSum(S), CommonDen(trades)))
             /\ S # {} =>
                  IsHundredths(g.avgPnL,
                               HalfAway(ScaledSum(S), CommonDen(trades) * Cardinality(S)))

ClassOf(i) ==
  IF trades[i].pnl.n > 0 THEN "win"
  ELSE IF trades[i].pnl.n < 0 THEN "loss" ELSE "scratch"

(* the length of the maximal run of trades of the class of the most recent *)
RunLength ==
  CHOOSE k \in 1..Len(trades) :
    /\ \A i \in 1..k : ClassOf(i) = ClassOf(1)
    /\ k = Len(trades) \/ ClassOf(k + 1) # ClassOf(1)

(* C10: currentStreak has the class of the most recent trade and counts    *)
(* the maximal run of that class starting at the most recent trade; with   *)
(* no trades it is {type: none, count: 0}.                                 *)
C10_CurrentStreak ==
  ret.op = "getStreaks" =>
    IF Len(trades) = 0
    THEN ret.value.currentStreak = [type |-> "none", count |-> Zero]
    ELSE ret.value.currentStreak = [type |-> ClassOf(1), count |-> Num(RunLength)]

(* getStreaks has returned for a run of two, then a trade of another       *)
(* class                                                                   *)
C10_Witness ==
  /\ ret.op = "getStreaks"
  /\ Len(trades) >= 3
  /\ ClassOf(2) = ClassOf(1)
  /\ ClassOf(3) # ClassOf(1)

(* the trades i..j all have the class cls *)
IsRun(i, j, cls) == \A k \in i..j : ClassOf(k) = cls

(* the length of the longest run of consecutive trades of the class cls *)
LongestRun(cls) ==
  CHOOSE n \in 0..Len(trades) :
    /\ n > 0 => \E i \in 1..(Len(trades) - n + 1) : IsRun(i, i + n - 1, cls)
    /\ \A m \in (n + 1)..Len(trades) :
         ~\E i \in 1..(Len(trades) - m + 1) : IsRun(i, i + m - 1, cls)

(* C11: bestWinStreak is the length of the longest run of consecutive      *)
(* wins and worstLossStreak the length of the longest run of consecutive   *)
(* losses in the chronological sequence; a scratch ends both runs.         *)
C11_LongestRuns ==
  ret.op = "getStreaks" =>
    /\ ret.value.bestWinStreak = Num(LongestRun("win"))
    /\ ret.value.worstLossStreak = Num(LongestRun("loss"))

(* getStreaks has returned for two trades of one class with a scratch      *)
(* between them                                                            *)
C11_Witness ==
  /\ ret.op = "getStreaks"
  /\ Len(trades) >= 3
  /\ ClassOf(1) = ClassOf(3)
  /\ ClassOf(1) # "scratch"
  /\ ClassOf(2) = "scratch"

(* the per-setup mapping returned: by getSetupAnalysis(), or as the        *)
(* setupAnalysis of a summary                                              *)
SetupAnalysisReturned ==
  \/ ret.op = "getSetupAnalysis"
  \/ ret.op = "getStats" /\ Len(trades) > 0

ReturnedSetupStats ==
  IF ret.op = "getSetupAnalysis" THEN ret.value ELSE ret.value.setupAnalysis

(* v is a / b rounded to two decimal places, a tie rounded either way *)
IsRoundedToCents(v, a, b) ==
  IsHundredths(v, HalfUp(a, b)) \/ IsHundredths(v, HalfAway(a, b))

(* what C12 says of the buckets apart from the win rate: the keys are      *)
(* distinct, every trade's key is a bucket, no bucket is empty, and the    *)
(* counts and the total of a bucket are those of its own trades            *)
BucketsPartitionTrades(A) ==
  /\ \A j, k \in 1..Len(A) : A[j].setup = A[k].setup => j = k
  /\ \A i \in 1..Len(trades) :
       \E k \in 1..Len(A) :
         A[k].setup = (IF trades[i].setup_type = NULL THEN "other"
                       ELSE trades[i].setup_type)
  /\ \A k \in 1..Len(A) :
       LET S == SetupIdx(A[k].setup)
       IN  /\ S # {}
           /\ A[k].totalTrades = Num(Cardinality(S))
           /\ A[k].winners = Num(Cardinality(S \cap WinIdx))
           /\ A[k].losers = Num(Cardinality(S \cap LossIdx))
           /\ IsRoundedToCents(A[k].totalPnL, ScaledSum(S), CommonDen(trades))

(* C12 (as amended): every trade is in exactly one bucket, keyed by its    *)
(* setup_type or "other"; each bucket's totalTrades, winners, losers and   *)
(* totalPnL are those of its own trades, and its winRate is winners /      *)
(* totalTrades * 100 of its own trades rounded to two decimal places.      *)
C12_BucketsWinRateRounded ==
  SetupAnalysisReturned =>
    /\ BucketsPartitionTrades(ReturnedSetupStats)
    /\ \A k \in 1..Len(ReturnedSetupStats) :
         LET S == SetupIdx(ReturnedSetupStats[k].setup)
         IN  IsHundredths(ReturnedSetupStats[k].winRate,
                          HalfUp(100 * Cardinality(S \cap WinIdx), Cardinality(S)))

(* C12 (original): every trade is in exactly one bucket, keyed by its      *)
(* setup_type or "other"; each bucket's totalTrades, winners, losers and   *)
(* totalPnL are those of its own trades, and its winRate is exactly        *)
(* winners / totalTrades * 100 of its own trades.                          *)
C12_BucketsWinRateExact ==
  SetupAnalysisReturned =>
    /\ BucketsPartitionTrades(ReturnedSetupStats)
    /\ \A k \in 1..Len(ReturnedSetupStats) :
         LET S == SetupIdx(ReturnedSetupStats[k].setup)
         IN  IsRatio(ReturnedSetupStats[k].winRate,
                     100 * Cardinality(S \cap WinIdx), Cardinality(S))

(* getSetupAnalysis() has returned two buckets, one of them for the trades *)
(* without a setup_type                                                    *)
C12_Witness ==
  /\ ret.op = "getSetupAnalysis"
  /\ Len(ret.value) = 2
  /\ \E i \in 1..Len(trades) : trades[i].setup_type = NULL
  /\ \E k \in 1..2 : Cardinality(SetupIdx(ret.value[k].setup)) = 2

(* the buckets in the order displayed: what each renderer shows, entry by  *)
(* entry, is the rendering of the buckets A[order[1]], A[order[2]], ...    *)
DisplaysInOrder(A, order) ==
  /\ out.op = "formatSetupAnalysis" =>
       /\ Len(out.lines) = Len(A) + 2
       /\ \A k \in 1..Len(A) : out.lines[k + 2] = SetupLine(A[order[k]])
  /\ out.op = "generateSetupAnalysis" =>
       /\ Len(out.rows) = Len(A)
       /\ \A k \in 1..Len(A) : out.rows[k] = SetupRow(A[order[k]])

(* the id of the first trade of the setup in the input (ids ascend in the  *)
(* order of the input rows)                                                *)
FirstSeen(setup) ==
  LET ids == {trades[i].id : i \in SetupIdx(setup)}
  IN  CHOOSE x \in ids : \A y \in ids : x <= y

SetupsDisplayed == out.op \in {"formatSetupAnalysis", "generateSetupAnalysis"}

(* C13: the buckets are displayed in descending order of totalPnL, and     *)
(* buckets of equal totalPnL in the order in which they were first         *)
(* encountered (the order of the mapping).                                 *)
C13_DisplayedByDescendingTotalPnL ==
  SetupsDisplayed =>
    \E order \in [1..Len(ret.value) -> 1..Len(ret.value)] :
      /\ \A j, k \in 1..Len(ret.value) : order[j] = order[k] => j = k
      /\ DisplaysInOrder(ret.value, order)
      /\ \A j, k \in 1..Len(ret.value) :
           j < k =>
             \/ RLess(ret.value[order[k]].totalPnL, ret.value[order[j]].totalPnL)
             \/ /\ ret.value[order[k]].totalPnL = ret.value[order[j]].totalPnL
                /\ FirstSeen(ret.value[order[j]].setup)
                     < FirstSeen(ret.value[order[k]].setup)

(* a renderer has displayed two buckets of equal, non-zero totalPnL *)
C13_Witness ==
  /\ SetupsDisplayed
  /\ Len(ret.value) = 2
  /\ ret.value[1].totalPnL = ret.value[2].totalPnL
  /\ ret.value[1].totalPnL # Zero

(* the trades entered on a day from Monday to Friday *)
WeekdayIdx == {i \in 1..Len(trades) : trades[i].entry_time % 7 \in 1..5}

RECURSIVE SumTotalTrades(_)
SumTotalTrades(buckets) ==
  IF buckets = <<>> THEN 0
  ELSE buckets[1].totalTrades.n + SumTotalTrades(Tail(buckets))

(* C14: the day-of-week analysis has exactly the five buckets Monday to    *)
(* Friday; each counts the trades entered on its day, a trade entered on a *)
(* Saturday or Sunday is counted in none, the counts add up to the number  *)
(* of trades entered on a weekday, and an empty bucket has winRate 0 and   *)
(* avgPnL 0.                                                               *)
C14_FiveWeekdayBuckets ==
  StatsReturned /\ Len(trades) > 0 =>
    LET D == ret.value.dayOfWeekAnalysis
    IN  /\ Len(D) = 5
        /\ \A k \in 1..5 :
             /\ D[k].day = <<"Monday", "Tuesday", "Wednesday", "Thursday", "Friday">>[k]
             /\ D[k].totalTrades = Num(Cardinality(DayIdx(D[k].day)))
             /\ D[k].totalTrades.d = 1
             /\ D[k].totalTrades = Zero =>
                  D[k].winRate = Zero /\ D[k].avgPnL = Zero
        /\ SumTotalTrades(D) = Cardinality(WeekdayIdx)

(* getStats has returned for trades entered on a Friday, a Saturday and a  *)
(* Sunday                                                                  *)
C14_Witness ==
  /\ StatsReturned
  /\ \E i, j, k \in 1..Len(trades) :
       /\ trades[i].entry_time % 7 = 5
       /\ trades[j].entry_time % 7 = 6
       /\ trades[k].entry_time % 7 = 0

ClosedRealTrades ==
  LET S == {i \in 1..Len(table) :
              table[i].status = "closed" /\ table[i].is_paper # 1}
      Nth(k) == CHOOSE i \in S : Cardinality({j \in S : j < i}) = k - 1
  IN  [k \in 1..Cardinality(S) |->
         [id |-> table[Nth(k)].id, ticker |-> table[Nth(k)].ticker,
          pnl |-> table[Nth(k)].pnl, setup_type |-> table[Nth(k)].setup_type,
          entry_time |-> table[Nth(k)].entry_time]]

(* C16: the results of getStats, getSetupAnalysis() and getStreaks depend  *)
(* only on the trades that are closed and not paper trades: whatever open  *)
(* and paper trades the store holds besides, and whatever their            *)
(* annotations, the results are those for the closed non-paper trades      *)
(* alone.                                                                  *)
C16_OnlyClosedRealTradesCount ==
  ret.op = "generateHTML" /\ hasPaperColumn =>
    /\ ret.value.allTimeStats = getStatsOf(Reverse(ClosedRealTrades))
    /\ ret.value.setupAnalysis = getSetupAnalysisOf(ClosedRealTrades)
    /\ ret.value.streaks = getStreaksOf(Reverse(ClosedRealTrades))

(* the dashboard has been given the results for a store with a closed      *)
(* trade that counts and a closed paper trade                              *)
C16_Witness ==
  /\ ret.op = "generateHTML"
  /\ hasPaperColumn
  /\ Len(ClosedRealTrades) = 1
  /\ \E i \in 1..Len(table) :
       /\ table[i].status = "closed"
       /\ table[i].is_paper = 1
       /\ table[i].pnl # null
       /\ table[i].pnl # ClosedRealTrades[1].pnl

(* C17: no call of the statistics engine changes the record store: the     *)
(* trades, narratives, watchlist and journal records, and the schema, are  *)
(* after the dashboard's engine calls what they were before.               *)
C17_EngineLeavesStoreUnchanged ==
  [][ret'.op = "generateHTML" =>
       /\ table' = table
       /\ narratives' = narratives
       /\ watchlist' = watchlist
       /\ journal' = journal
       /\ hasPaperColumn' = hasPaperColumn]_vars

(* the engine has returned its results for a store that holds two trades,  *)
(* one of them closed, a narrative, a watchlist item and a journal entry   *)
C17_Witness ==
  /\ ret.op = "generateHTML"
  /\ hasPaperColumn
  /\ Len(table) = 2
  /\ table[1].status = "closed"
  /\ table[1].is_paper = 0
  /\ table[1].pnl # table[2].pnl
  /\ narratives # <<>>
  /\ watchlist # <<>>
  /\ journal # <<>>
  /\ rows # <<>>

(* C18: in every state reached by openTrade, closeTrade and                *)
(* updateTradeNotes, the pnl of a trade is null if and only if its status  *)
(* is open, and the pnl of a closed trade is its proceeds minus its        *)
(* cost_basis.                                                             *)
C18_PnlNullIffOpen ==
  \A i \in 1..Len(table) :
    /\ table[i].pnl = null <=> table[i].status = "open"
    /\ table[i].status = "closed" =>
         /\ table[i].proceeds # null
         /\ table[i].pnl = RAdd(table[i].proceeds,
                                [n |-> -table[i].cost_basis.n,
                                 d |-> table[i].cost_basis.d])

(* C19: once a trade is closed, no later operation changes its status,     *)
(* exit_price, proceeds or pnl.                                            *)
C19_ClosedTradeIsFinal ==
  [][\A i \in 1..Len(table) :
       table[i].status = "closed" =>
         /\ table'[i].status = "closed"
         /\ table'[i].exit_price = table[i].exit_price
         /\ table'[i].proceeds = table[i].proceeds
         /\ table'[i].pnl = table[i].pnl]_vars

(* C20: updateTradeNotes changes nothing but the notes and the lessons of  *)
(* the trade with the id given: its other columns, and every other trade,  *)
(* are after the call what they were before.                               *)
C20_UpdateTradeNotesFrame ==
  [][\A id \in 1..(Len(table) + 1), notes \in NoteTexts,
        lessons \in {NULL} \cup LessonTexts :
       updateTradeNotes(id, notes, lessons) =>
         /\ Len(table') = Len(table)
         /\ \A i \in 1..Len(table) :
              IF table[i].id = id
              THEN \A column \in DOMAIN table[i] \ {"notes", "lessons"} :
                     table'[i][column] = table[i][column]
              ELSE table'[i] = table[i]]_vars

(* an open trade has been annotated beside a closed trade that has neither *)
(* notes nor lessons                                                       *)
C20_Witness ==
  /\ Len(table) = 2
  /\ table[1].status = "open"
  /\ table[1].notes # NULL
  /\ table[1].lessons # NULL
  /\ table[2].status = "closed"
  /\ table[2].pnl # null
  /\ table[2].notes = NULL
  /\ table[2].lessons = NULL

(* the number of trades of the class cls *)
CountOfClass(cls) == Cardinality({i \in 1..Len(trades) : ClassOf(i) = cls})

(* C28: in the result of getStreaks a current streak of wins is no longer  *)
(* than bestWinStreak, a current streak of losses no longer than           *)
(* worstLossStreak, and bestWinStreak and worstLossStreak are at most the  *)
(* numbers of winning and of losing trades.                                *)
C28_CurrentWithinExtremes ==
  ret.op = "getStreaks" =>
    LET streaks == ret.value
    IN  /\ streaks.currentStreak.type = "win" =>
             RLeq(streaks.currentStreak.count, streaks.bestWinStreak)
        /\ streaks.currentStreak.type = "loss" =>
             RLeq(streaks.currentStreak.count, streaks.worstLossStreak)
        /\ RLeq(streaks.bestWinStreak, Num(CountOfClass("win")))
        /\ RLeq(streaks.worstLossStreak, Num(CountOfClass("loss")))

(* getStreaks has returned for a win, before it a loss, before that a win: *)
(* the current streak is one win, of two winning trades                    *)
C28_Witness ==
  /\ ret.op = "getStreaks"
  /\ Len(trades) = 3
  /\ ClassOf(1) = "win"
  /\ ClassOf(2) = "loss"
  /\ ClassOf(3) = "win"
  /\ ret.value.currentStreak = [type |-> "win", count |-> Num(1)]

(* C24: every trade the queries of the engine select (closed, not a paper *)
(* trade) has a pnl that is a number, not null, whatever exit prices the   *)
(* commands passed.                                                        *)
C24_SelectedTradesHavePnl ==
  \A i \in 1..Len(table) : StatsFilter(table[i]) => table[i].pnl # null

(* the store is a new one: its trades table is the one initTablesSync      *)
(* creates                                                                 *)
FreshStore == TableColumns = TradesColumns

(* C26: on a new store openTrade succeeds and the queries of the engine    *)
(* run: none throws an error of the schema.                                *)
C26_FreshStoreRunsTradesAndQueries ==
  FreshStore /\ ret.op \in {"openTrade", "generateHTML"} => ~Threw(ret)

(* C27: closeTrade with an id that no trade has throws "Trade <id> not     *)
(* found" and changes no trade; the command trade close prints the error   *)
(* line, not the line of a close.                                          *)
C27_CloseUnknownIdFails ==
  [][\A id \in 1..(Len(table) + 1) :
       (\A i \in 1..Len(table) : table[i].id # id) =>
         \A exitPrice \in ExitPrices, options \in CloseOptions :
           tradeClose(ToString(id), exitPrice, options) =>
             /\ table' = table
             /\ ret' = [op |-> "closeTrade",
                        error |-> "Trade " \o ToString(id) \o " not found"]
             /\ out' = "{U+274C} Error: Trade " \o ToString(id)
                         \o " not found"]_vars

(* a close of the trade 2 has thrown on a store whose only trade, the      *)
(* trade 1, is open as before                                              *)
C27_Witness ==
  /\ ret = [op |-> "closeTrade", error |-> "Trade 2 not found"]
  /\ Len(table) = 1
  /\ table[1].status = "open"

(* C30: the basis the command trade open prints is the cost_basis that     *)
(* openTrade has stored for the trade, the one closeTrade subtracts from    *)
(* the proceeds.                                                           *)
C30_PrintedBasisIsStored ==
  [][\A instrument \in Instruments, entryPrice \in EntryPrices, size \in Sizes :
       (tradeOpen(instrument, entryPrice, size) /\ ~Threw(ret')) =>
         out' = OpenedLine(ret'.value, instrument, entryPrice, size,
                           table'[ret'.value.n].cost_basis)]_vars

(* C21: a narrative whose status is triggered, invalidated or expired      *)
(* keeps that status: no call changes it again or returns it to active.    *)
C21_TerminalStatusIsFinal ==
  [][\A i \in 1..Len(narratives) :
       narratives[i].status \in TerminalStatuses =>
         narratives'[i].status = narratives[i].status]_vars

(* C29: the resolved_at of a narrative is null if and only if its status   *)
(* is active.                                                              *)
C29_ResolvedIffNotActive ==
  \A i \in 1..Len(narratives) :
    narratives[i].resolved_at = NULL <=> narratives[i].status = "active"

(* a status has been written: the first narrative is expired and has its   *)
(* resolved_at, the second is active                                       *)
C29_Witness ==
  /\ ret.op = "updateNarrativeStatus"
  /\ Len(narratives) = 2
  /\ narratives[1].status = "expired"
  /\ narratives[1].resolved_at \in Instants
  /\ narratives[2].status = "active"

(* C22: the journal has at most one record for a date: a write creates a   *)
(* record only for a date that has none, and else changes the record of    *)
(* the date, which keeps its id.                                           *)
C22_OneRecordPerDate ==
  [][/\ \A i, j \in 1..Len(journal') :
          journal'[i].date = journal'[j].date => i = j
     /\ Len(journal) <= Len(journal')
     /\ Len(journal') <= Len(journal) + 1
     /\ \A i \in 1..Len(journal) :
          /\ journal'[i].id = journal[i].id
          /\ journal'[i].date = journal[i].date
     /\ Len(journal') > Len(journal) =>
          journal'[Len(journal')].date \notin DatesOf(journal)]_vars

(* the record of the first day was created by one write and changed by     *)
(* another, and the second day has a record of its own                     *)
C22_Witness ==
  /\ Len(journal) = 2
  /\ journal[1].premarket_plan # NULL
  /\ journal[1].postmarket_review # NULL
  /\ journal[1].date # journal[2].date

HasEnded(w) == writers[w].pc \in {"returned", "threw"}

(* the columns the write of the call sets have its values in the entry *)
HoldsWriteOf(entry, w) ==
  \A column \in DOMAIN writers[w].assignments :
    entry[column] = writers[w].assignments[column]

(* C25: when two journal writes for one date have ended, whatever the      *)
(* order their statements ran in, neither has thrown, the date has exactly *)
(* one record, and the record holds what each has written (of two writes   *)
(* of the same columns, what one of them has written).                     *)
C25_InterleavedWritesBothLand ==
  \A v, w \in 1..Len(writers) :
    (v < w /\ HasEnded(v) /\ HasEnded(w) /\ writers[v].today = writers[w].today) =>
      /\ writers[v].pc = "returned"
      /\ writers[w].pc = "returned"
      /\ ChangesOf(journal, writers[w].today) = 1
      /\ \A i \in 1..Len(journal) :
           journal[i].date = writers[w].today =>
             IF writers[v].op # writers[w].op
             THEN HoldsWriteOf(journal[i], v) /\ HoldsWriteOf(journal[i], w)
             ELSE HoldsWriteOf(journal[i], v) \/ HoldsWriteOf(journal[i], w)

====
